---- MODULE Spec2Model ----
(***************************************************************************)
(* A model of src/index.ts: the reference registry (RefManager), the       *)
(* reference-counted abort multiplexer (AbortControllerMux) and the remote *)
(* gender cache (GenderCache).                                             *)
(*                                                                         *)
(* The microtask queue of the host (queueMicrotask) is a FIFO sequence; a  *)
(* promise settles its dependants in the step that settles it.             *)
(***************************************************************************)
EXTENDS Integers, Sequences, FiniteSets, TLC

\* ------------------------------------------------------------------ bounds
\* Number of RefManager calls (add, remove, on, off) in one behaviour.
MaxCalls == 5
\* Number of GenderCache.fetch calls in one behaviour.
MaxFetches == 3
\* Number of changes of the src attribute of p-id elements in one behaviour.
MaxSrcChanges == 3
\* Number of attribute and text changes of elements in one behaviour.
MaxDomCalls == 5

Keys == {"k1", "k2"}
Entities == {"A", "B"}
Listeners == {"f"}
Sources == {"u1", "u2"}

\* The value of an absent element (undefined).
Absent == "absent"

VARIABLES
    \* RefManager
    refMap,          \* ref -> insertion-ordered Set of elements (a sequence without repeats)
    listenerMap,     \* ref -> Set of listener functions
    microtasks,      \* the host's microtask queue, oldest first
    \* history of the registry
    nCalls,          \* RefManager calls made so far
    changes,         \* ref -> the active-holder transitions its add/remove calls made, in call order
    nNotified,       \* ref -> number of notify(ref, ...) runs so far
    base,            \* <<fn, ref>> -> nNotified[ref] when fn last became a listener of ref
    heard,           \* <<fn, ref>> -> the calls made to fn for ref since it last became a listener
    soleAt,          \* <<fn, ref>> -> the sole holder of ref when fn last subscribed, until ref is touched
    registeredAt,    \* <<ref, el>> -> the number of the call that registered el under ref, 0 when it is not registered
    \* GenderCache
    genderRequests,  \* uri -> index in transports of the stored [promise, abortMux]
    transports,      \* every transport request issued: its promise and its AbortControllerMux
    callers,         \* every fetch call made: its signal and the promise it was handed
    \* the resolver functions
    resCall,         \* the call under way: changeGender or inferForm with its arguments
    resResult,       \* what the call returned or threw
    \* PIdElement
    pid,             \* element -> its _src, _abortController, loadedPronouns and load history
    loads,           \* fetch call -> the element that made it and the number of its load
    nSrcChanges,     \* changes of a src attribute made so far
    \* PNounElement and the p-id elements it refers to
    noun,            \* the p-noun: its _ref, the p-ids it listens to, its pronounData
    pids,            \* p-id element -> its _ref and its _value
    nDomCalls        \* attribute and text changes made so far

regVars == <<refMap, listenerMap, microtasks, nCalls, changes, nNotified, base, heard, soleAt,
            registeredAt>>
cacheVars == <<genderRequests, transports, callers>>
resVars == <<resCall, resResult>>
pidVars == <<pid, loads, nSrcChanges>>
nounVars == <<noun, pids, nDomCalls>>
nonRegVars == <<cacheVars, resVars, pidVars, nounVars>>
nonCacheVars == <<regVars, resVars, pidVars, nounVars>>
regHistory == <<nCalls, changes, nNotified, base, heard, soleAt, registeredAt>>
vars == <<refMap, listenerMap, microtasks, nCalls, changes, nNotified, base, heard, soleAt,
          registeredAt,
          genderRequests, transports, callers, resCall, resResult,
          pid, loads, nSrcChanges, noun, pids, nDomCalls>>

\* ------------------------------------------------------------- Map helpers
\* Map.set(key, value)
MapSet(map, key, value) ==
    [k \in DOMAIN map \cup {key} |-> IF k = key THEN value ELSE map[k]]

\* Map.delete(key)
MapDelete(map, key) ==
    [k \in DOMAIN map \ {key} |-> map[k]]

\* A bug of Set.add: an element added again moves to the end.
SetAddMovesLast(s, el) ==
    Append(SelectSeq(s, LAMBDA x : x # el), el)

\* Set.add(el) on an insertion-ordered Set
SetAdd(s, el) ==
    IF \E i \in 1..Len(s) : s[i] = el THEN s ELSE Append(s, el)

\* Set.delete(el) on an insertion-ordered Set
SetDelete(s, el) ==
    SelectSeq(s, LAMBDA x : x # el)

\* -------------------------------------------------------------- RefManager
\* RefManager.get: the first element of the ref's Set, undefined without one.
Get(map, ref) ==
    IF ref \in DOMAIN map /\ map[ref] # <<>> THEN Head(map[ref]) ELSE Absent

\* queueMicrotask(() => this.notify(ref, oldElement, newElement))
NotifyTask(ref, oldElement, newElement) ==
    [kind |-> "notify", ref |-> ref, fn |-> Absent, old |-> oldElement, new |-> newElement]

\* A bug of on: the replay does not carry the current holder.
ReplayTaskEmpty(ref, fn, el) ==
    [kind |-> "replay", ref |-> ref, fn |-> fn, old |-> Absent, new |-> Absent]

\* queueMicrotask(() => fn(undefined, el)) of RefManager.on
ReplayTask(ref, fn, el) ==
    [kind |-> "replay", ref |-> ref, fn |-> fn, old |-> Absent, new |-> el]

\* A bug of add: it notifies on every call.
AddTasksAlways(map, ref, el) ==
    <<NotifyTask(ref, Absent, el)>>

\* RefManager.add: the microtasks it queues.
AddTasks(map, ref, el) ==
    IF ref \in DOMAIN map THEN <<>> ELSE <<NotifyTask(ref, Absent, el)>>

\* RefManager.add: the refMap it leaves.
AddRefs(map, ref, el) ==
    IF ref \in DOMAIN map
        THEN [map EXCEPT ![ref] = SetAdd(@, el)]
        ELSE MapSet(map, ref, <<el>>)

\* A bug of remove: the emptied Set stays in the map.
RemoveRefsKeepEmpty(map, ref, el) ==
    IF ref \in DOMAIN map THEN [map EXCEPT ![ref] = SetDelete(@, el)] ELSE map

\* RemoveRefs: RefManager.remove: the refMap it leaves.
RemoveRefs(map, ref, el) ==
    IF ref \in DOMAIN map
        THEN LET refs == SetDelete(map[ref], el)
             IN  IF refs = <<>> THEN MapDelete(map, ref) ELSE [map EXCEPT ![ref] = refs]
        ELSE map

\* A bug of remove: it reads the new holder before it deletes the old one.
RemoveTasksStale(map, ref, el) ==
    IF ref \in DOMAIN map /\ Get(map, ref) = el
        THEN <<NotifyTask(ref, el, Get(map, ref))>>
        ELSE <<>>

\* RemoveTasks: RefManager.remove: the microtasks it queues.
RemoveTasks(map, ref, el) ==
    IF ref \in DOMAIN map /\ Get(map, ref) = el
        THEN <<NotifyTask(ref, el, Get(RemoveRefs(map, ref, el), ref))>>
        ELSE <<>>

\* RefManager.on: the listenerMap it leaves.
OnListeners(map, ref, fn) ==
    IF ref \in DOMAIN map THEN [map EXCEPT ![ref] = @ \cup {fn}] ELSE MapSet(map, ref, {fn})

\* RefManager.off: the listenerMap it leaves.
OffListeners(map, ref, fn) ==
    IF ref \in DOMAIN map
        THEN LET listeners == map[ref] \ {fn}
             IN  IF listeners = {} THEN MapDelete(map, ref) ELSE [map EXCEPT ![ref] = listeners]
        ELSE map

\* RefManager.notify: the listeners it calls.
NotifyTargets(map, ref) ==
    IF ref \in DOMAIN map THEN map[ref] ELSE {}

\* The holder transition a call made, as a sequence of zero or one transition.
Transition(before, after) ==
    IF before = after THEN <<>> ELSE <<[old |-> before, new |-> after]>>

Subscribed(fn, ref) == fn \in NotifyTargets(listenerMap, ref)

\* The arguments of one call of a listener.
Call(kind, oldElement, newElement) ==
    [kind |-> kind, old |-> oldElement, new |-> newElement]

\* add(ref, el)
Add(ref, el) ==
    /\ nCalls < MaxCalls
    /\ refMap' = AddRefs(refMap, ref, el)
    /\ microtasks' = microtasks \o AddTasks(refMap, ref, el)
    /\ nCalls' = nCalls + 1
    /\ registeredAt' = [registeredAt EXCEPT ![<<ref, el>>] = IF @ = 0 THEN nCalls + 1 ELSE @]
    /\ changes' = [changes EXCEPT ![ref] = @ \o Transition(Get(refMap, ref), Get(refMap', ref))]
    /\ soleAt' = [p \in Listeners \X Keys |-> IF p[2] = ref THEN Absent ELSE soleAt[p]]
    /\ UNCHANGED <<listenerMap, nNotified, base, heard>>
    /\ UNCHANGED nonRegVars

\* remove(ref, el)
Remove(ref, el) ==
    /\ nCalls < MaxCalls
    /\ refMap' = RemoveRefs(refMap, ref, el)
    /\ microtasks' = microtasks \o RemoveTasks(refMap, ref, el)
    /\ nCalls' = nCalls + 1
    /\ registeredAt' = [registeredAt EXCEPT ![<<ref, el>>] = 0]
    /\ changes' = [changes EXCEPT ![ref] = @ \o Transition(Get(refMap, ref), Get(refMap', ref))]
    /\ soleAt' = [p \in Listeners \X Keys |-> IF p[2] = ref THEN Absent ELSE soleAt[p]]
    /\ UNCHANGED <<listenerMap, nNotified, base, heard>>
    /\ UNCHANGED nonRegVars

\* on(ref, fn)
On(ref, fn) ==
    /\ nCalls < MaxCalls
    /\ listenerMap' = OnListeners(listenerMap, ref, fn)
    /\ microtasks' = Append(microtasks, ReplayTask(ref, fn, Get(refMap, ref)))
    /\ nCalls' = nCalls + 1
    /\ IF Subscribed(fn, ref)
         THEN UNCHANGED <<base, heard>>
         ELSE /\ base' = [base EXCEPT ![<<fn, ref>>] = nNotified[ref]]
              /\ heard' = [heard EXCEPT ![<<fn, ref>>] = <<>>]
    /\ soleAt' = [soleAt EXCEPT ![<<fn, ref>>] =
                    IF ~Subscribed(fn, ref) /\ ref \in DOMAIN refMap /\ Len(refMap[ref]) = 1
                        THEN Get(refMap, ref) ELSE Absent]
    /\ UNCHANGED <<refMap, changes, nNotified, registeredAt>>
    /\ UNCHANGED nonRegVars

\* off(ref, fn)
Off(ref, fn) ==
    /\ nCalls < MaxCalls
    /\ listenerMap' = OffListeners(listenerMap, ref, fn)
    /\ nCalls' = nCalls + 1
    /\ soleAt' = [soleAt EXCEPT ![<<fn, ref>>] = Absent]
    /\ UNCHANGED <<refMap, microtasks, changes, nNotified, base, heard, registeredAt>>
    /\ UNCHANGED nonRegVars

\* The host runs the oldest microtask: a notify or the replay of an on.
RunMicrotask ==
    /\ microtasks # <<>>
    /\ LET task == Head(microtasks)
           targets == IF task.kind = "notify"
                          THEN NotifyTargets(listenerMap, task.ref)
                          ELSE {task.fn}
       IN  /\ heard' = [p \in Listeners \X Keys |->
                          IF p[2] = task.ref /\ p[1] \in targets
                              THEN Append(heard[p], Call(task.kind, task.old, task.new))
                              ELSE heard[p]]
           /\ nNotified' = IF task.kind = "notify"
                               THEN [nNotified EXCEPT ![task.ref] = @ + 1]
                               ELSE nNotified
    /\ microtasks' = Tail(microtasks)
    /\ UNCHANGED <<refMap, listenerMap, nCalls, changes, base, soleAt, registeredAt>>
    /\ UNCHANGED nonRegVars

\* ------------------------------------------------ pronoun table, resolver
\* A string is the sequence of its characters. A value that may be a string, a
\* symbol or undefined is a record of its kind and, for a string, its text.
Str(text) == [kind |-> "string", text |-> text]
ORIGINAL == [kind |-> "original", text |-> <<>>]
NAME == [kind |-> "name", text |-> <<>>]
Undefined == [kind |-> "undefined", text |-> <<>>]
\* A TypeError thrown by the call.
TypeError == [kind |-> "TypeError", text |-> <<>>]

LowerChars == <<"a", "b", "c", "d", "e", "f", "g", "h", "i", "j", "k", "l", "m", "n", "o", "p", "q", "r", "s", "t", "u", "v", "w", "x", "y", "z">>
UpperChars == <<"A", "B", "C", "D", "E", "F", "G", "H", "I", "J", "K", "L", "M", "N", "O", "P", "Q", "R", "S", "T", "U", "V", "W", "X", "Y", "Z">>

\* String.prototype.toLowerCase, on one character and on a string
ToLowerChar(c) ==
    IF \E i \in 1..Len(UpperChars) : UpperChars[i] = c
        THEN LowerChars[CHOOSE i \in 1..Len(UpperChars) : UpperChars[i] = c]
        ELSE c

ToLowerCase(text) == [i \in 1..Len(text) |-> ToLowerChar(text[i])]

\* String.prototype.toUpperCase on one character
ToUpperChar(c) ==
    IF \E i \in 1..Len(LowerChars) : LowerChars[i] = c
        THEN UpperChars[CHOOSE i \in 1..Len(LowerChars) : LowerChars[i] = c]
        ELSE c

\* /^\p{Lu}/u.test(text)
StartsUpper(text) ==
    text # <<>> /\ \E i \in 1..Len(UpperChars) : UpperChars[i] = text[1]

\* Array.prototype.indexOf: the first index (from 0) of x in seq, -1 without one.
IndexOf(seq, x) ==
    IF \E i \in 1..Len(seq) : seq[i] = x
        THEN (CHOOSE i \in 1..Len(seq) : seq[i] = x /\ \A j \in 1..(i - 1) : seq[j] # x) - 1
        ELSE -1

\* The pronoun table, by key.
pronouns ==
    <<"a", "e">> :> <<Str(<<"a", "e">>), Str(<<"a", "e", "r">>), Str(<<"a", "e", "r">>), Str(<<"a", "e", "r", "s">>), Str(<<"a", "e", "r", "s", "e", "l", "f">>)>> @@
    <<"e", "y">> :> <<Str(<<"e", "y">>), Str(<<"e", "m">>), Str(<<"e", "i", "r">>), Str(<<"e", "i", "r", "s">>), Str(<<"e", "m", "s", "e", "l", "f">>)>> @@
    <<"f", "a", "e">> :> <<Str(<<"f", "a", "e">>), Str(<<"f", "a", "e", "r">>), Str(<<"f", "a", "e", "r">>), Str(<<"f", "a", "e", "r", "s">>), Str(<<"f", "a", "e", "r", "s", "e", "l", "f">>)>> @@
    <<"h", "e">> :> <<Str(<<"h", "e">>), Str(<<"h", "i", "m">>), Str(<<"h", "i", "s">>), Str(<<"h", "i", "s">>), Str(<<"h", "i", "m", "s", "e", "l", "f">>)>> @@
    <<"i", "t">> :> <<Str(<<"i", "t">>), Str(<<"i", "t">>), Str(<<"i", "t">>), Str(<<"i", "t", "s">>), Str(<<"i", "t", "s", "e", "l", "f">>)>> @@
    <<"n", "e">> :> <<Str(<<"n", "e">>), Str(<<"n", "e", "m">>), Str(<<"n", "i", "r">>), Str(<<"n", "i", "r", "s">>), Str(<<"n", "e", "m", "s", "e", "l", "f">>)>> @@
    <<"p", "e", "r">> :> <<Str(<<"p", "e", "r">>), Str(<<"p", "e", "r">>), Str(<<"p", "e", "r", "s">>), Str(<<"p", "e", "r", "s">>), Str(<<"p", "e", "r", "s", "e", "l", "f">>)>> @@
    <<"s", "h", "e">> :> <<Str(<<"s", "h", "e">>), Str(<<"h", "e", "r">>), Str(<<"h", "e", "r">>), Str(<<"h", "e", "r", "s">>), Str(<<"h", "e", "r", "s", "e", "l", "f">>)>> @@
    <<"s", "i", "e">> :> <<Str(<<"s", "i", "e">>), Str(<<"s", "i", "r">>), Str(<<"h", "i", "r">>), Str(<<"h", "i", "r", "s">>), Str(<<"h", "i", "r", "s", "e", "l", "f">>)>> @@
    <<"t", "h", "e", "y">> :> <<Str(<<"t", "h", "e", "y">>), Str(<<"t", "h", "e", "m">>), Str(<<"t", "h", "e", "i", "r">>), Str(<<"t", "h", "e", "i", "r", "s">>), Str(<<"t", "h", "e", "m", "s", "e", "l", "f">>)>> @@
    <<"v", "e">> :> <<Str(<<"v", "e">>), Str(<<"v", "e", "r">>), Str(<<"v", "i", "s">>), Str(<<"v", "e", "r", "s">>), Str(<<"v", "e", "r", "s", "e", "l", "f">>)>> @@
    <<"x", "e">> :> <<Str(<<"x", "e">>), Str(<<"x", "e", "m">>), Str(<<"x", "y", "r">>), Str(<<"x", "y", "r", "s">>), Str(<<"x", "e", "m", "s", "e", "l", "f">>)>> @@
    <<"z", "e">> :> <<Str(<<"z", "e">>), Str(<<"h", "i", "r">>), Str(<<"h", "i", "r">>), Str(<<"h", "i", "r", "s">>), Str(<<"h", "i", "r", "s", "e", "l", "f">>)>> @@
    <<"z", "e", "2">> :> <<Str(<<"z", "e">>), Str(<<"z", "i", "r">>), Str(<<"z", "i", "r">>), Str(<<"z", "i", "r", "s">>), Str(<<"z", "i", "r", "s", "e", "l", "f">>)>> @@
    <<"z", "i", "e">> :> <<Str(<<"z", "i", "e">>), Str(<<"z", "i", "m">>), Str(<<"z", "i", "r">>), Str(<<"z", "i", "r", "s">>), Str(<<"z", "i", "r", "s", "e", "l", "f">>)>> @@
    <<"u", "n", "k", "n", "o", "w", "n">> :> <<ORIGINAL, ORIGINAL, ORIGINAL, ORIGINAL, ORIGINAL>> @@
    <<"a", "n", "y">> :> <<ORIGINAL, ORIGINAL, ORIGINAL, ORIGINAL, ORIGINAL>> @@
    <<"n", "o", "n", "e">> :> <<NAME, NAME, NAME, NAME, NAME>>

\* The aliases of the pronoun keys.
pronounDbMap ==
    <<"u", "n", "s", "p", "e", "c", "i", "f", "i", "e", "d">> :> <<"u", "n", "k", "n", "o", "w", "n">> @@
    <<"h", "h">> :> <<"h", "e">> @@
    <<"h", "i">> :> <<"h", "e">> @@
    <<"h", "s">> :> <<"h", "e">> @@
    <<"h", "t">> :> <<"h", "e">> @@
    <<"i", "h">> :> <<"i", "t">> @@
    <<"i", "i">> :> <<"i", "t">> @@
    <<"i", "s">> :> <<"i", "t">> @@
    <<"i", "t">> :> <<"i", "t">> @@
    <<"s", "h", "h">> :> <<"s", "h", "e">> @@
    <<"s", "h">> :> <<"s", "h", "e">> @@
    <<"s", "i">> :> <<"s", "h", "e">> @@
    <<"s", "t">> :> <<"s", "h", "e">> @@
    <<"t", "h">> :> <<"t", "h", "e", "y">> @@
    <<"t", "i">> :> <<"t", "h", "e", "y">> @@
    <<"t", "s">> :> <<"t", "h", "e", "y">> @@
    <<"t", "t">> :> <<"t", "h", "e", "y">> @@
    <<"a", "n", "y">> :> <<"a", "n", "y">> @@
    <<"o", "t", "h", "e", "r">> :> <<"u", "n", "k", "n", "o", "w", "n">> @@
    <<"a", "s", "k">> :> <<"u", "n", "k", "n", "o", "w", "n">> @@
    <<"a", "v", "o", "i", "d">> :> <<"n", "o", "n", "e">>

\* Property names every object inherits from Object.prototype; their values are
\* functions or objects, none a key of the table once made a string.
InheritedKeys == {<<"c", "o", "n", "s", "t", "r", "u", "c", "t", "o", "r">>,
                  <<"t", "o", "S", "t", "r", "i", "n", "g">>}

\* lookupPronouns: the Entry of a key or of its alias, Undefined without one.
lookupPronouns(value) ==
    IF value \in DOMAIN pronounDbMap
        THEN IF pronounDbMap[value] \in DOMAIN pronouns
                 THEN [present |-> TRUE, entry |-> pronouns[pronounDbMap[value]]]
                 ELSE [present |-> FALSE, entry |-> <<>>]
    ELSE IF value \in InheritedKeys
        THEN [present |-> FALSE, entry |-> <<>>]
    ELSE IF value \in DOMAIN pronouns
        THEN [present |-> TRUE, entry |-> pronouns[value]]
        ELSE [present |-> FALSE, entry |-> <<>>]

ENTRY_FORMATS == <<"s", "o", "pa", "pp", "r">>
PRONOUN_FORMATS == <<"n", "np", "nr">> \o ENTRY_FORMATS

\* getIdentityInForm
getIdentityInForm(form, identity) ==
    IF form \in {"np", "pa", "pp"} THEN Str(identity \o <<"'", "s">>)
    ELSE IF form \in {"nr", "r"} THEN Str(identity \o <<"'", "s", " ", "s", "e", "l", "f">>)
    ELSE Str(identity)

\* data.pronouns[formIndex], Undefined past the end of the tuple
SlotAt(entry, formIndex) ==
    IF formIndex + 1 \in 1..Len(entry) THEN entry[formIndex + 1] ELSE Undefined

\* getPronounInForm: pronoun[0].toUpperCase() throws a TypeError on the empty
\* string, whose pronoun[0] is undefined.
getPronounInForm(form, data, fallback) ==
    LET formIndex == IndexOf(ENTRY_FORMATS, form)
        pronoun == SlotAt(data.pronouns.entry, formIndex)
    IN  IF data.pronouns.present /\ formIndex # -1
            THEN IF pronoun.kind = "string"
                     THEN IF StartsUpper(fallback)
                              THEN IF pronoun.text = <<>>
                                       THEN TypeError
                                       ELSE Str(<<ToUpperChar(pronoun.text[1])>> \o Tail(pronoun.text))
                              ELSE pronoun
                 ELSE IF pronoun = ORIGINAL THEN Str(fallback)
                 ELSE IF pronoun = NAME THEN getIdentityInForm(form, data.identity)
                 ELSE Str(fallback)
            ELSE Str(fallback)

\* changeGender
changeGender(form, data, fallback) ==
    IF form \in {"n", "np", "nr"}
        THEN getIdentityInForm(form, data.identity)
        ELSE getPronounInForm(form, data, fallback)

\* inferForm: one option per Entry of the table that holds the word, the index
\* of its first slot holding it.
inferForm(pronoun) ==
    LET word == Str(ToLowerCase(pronoun))
        options == {key \in DOMAIN pronouns : IndexOf(pronouns[key], word) # -1}
    IN  IF Cardinality(options) = 1
            THEN Str(<<ENTRY_FORMATS[IndexOf(pronouns[CHOOSE key \in options : TRUE], word) + 1]>>)
            ELSE Undefined

\* ------------------------------------------- AbortControllerMux, GenderCache
\* The states of a promise.
Pending == "pending"
Fulfilled == "fulfilled"
Rejected == "rejected"
\* Rejected with the AbortError DOMException.
Aborted == "aborted"

\* ------------------------------------------------- the remote response
\* No pronouns: PronounData.pronouns undefined.
NoPronouns == [present |-> FALSE, entry |-> <<>>]

\* A number, as an element of a JSON array.
Num == [kind |-> "number", text |-> <<>>]

\* data.pronouns of a response body: a string, an array, another value, or no
\* such field ("missing"); "nobody" is a body that is no object.
PString(text) == [kind |-> "string", text |-> text, items |-> <<>>]
PArray(items) == [kind |-> "array", text |-> <<>>, items |-> items]
POther(kind) == [kind |-> kind, text |-> <<>>, items |-> <<>>]

\* The transport has not answered.
NoResponse == [received |-> FALSE, ok |-> FALSE, pronouns |-> POther("missing")]

\* The responses of the transport: a network failure, an error status, and
\* success statuses with the bodies the shape check tells apart.
Responses ==
    {NoResponse,
     [received |-> TRUE, ok |-> FALSE, pronouns |-> PString(<<"s", "h", "e">>)]}
        \cup [received : {TRUE}, ok : {TRUE},
              pronouns : {PString(<<"s", "h", "e">>), PString(<<"h", "h">>), PString(<<"b", "o", "g", "u", "s">>),
                          PString(<<"c", "o", "n", "s", "t", "r", "u", "c", "t", "o", "r">>),
                          PArray(<<Str(<<"x", "e">>), Str(<<"x", "e", "m">>)>>),
                          PArray(<<Str(<<"x", "e">>)>>),
                          PArray(<<Str(<<"x", "e">>), Num>>),
                          POther("number"), POther("missing"), POther("nobody")}]

\* A bug of the shape check: an array of one string is accepted.
AcceptedArrayOfOne(items) ==
    Len(items) >= 1 /\ \A i \in 1..Len(items) : items[i].kind = "string"

\* Array.isArray(respPronouns) && respPronouns.length >= 2
\*     && respPronouns.every(p => typeof p === "string")
AcceptedArray(items) ==
    Len(items) >= 2 /\ \A i \in 1..Len(items) : items[i].kind = "string"

\* The response handler of GenderCache.fetch: the state its promise takes and
\* the pronouns of the Gender it returns. 'pronouns' in data throws on a body
\* that is no object; a rejected fetch (no response) rejects the promise.
HandleResponse(resp) ==
    LET p == resp.pronouns
        reject == [state |-> Rejected, value |-> NoPronouns]
    IN  IF ~resp.received THEN reject
        ELSE IF ~resp.ok THEN reject
        ELSE IF p.kind \in {"nobody", "missing"} THEN reject
        ELSE IF p.kind = "string"
            THEN IF lookupPronouns(p.text).present
                     THEN [state |-> Fulfilled, value |-> lookupPronouns(p.text)]
                     ELSE reject
        ELSE IF p.kind = "array" /\ AcceptedArray(p.items)
            THEN [state |-> Fulfilled, value |-> [present |-> TRUE, entry |-> p.items]]
        ELSE reject

\* new AbortControllerMux() with the promise of the transport request it guards:
\* _count starts at 1; superAborts counts the calls of AbortController.abort.
NewTransport(uri) ==
    [uri |-> uri, state |-> Pending, count |-> 1, superAborts |-> 0,
     value |-> NoPronouns, response |-> NoResponse]

\* A bug of abort: it aborts whatever the count, as a plain AbortController does.
MuxAbortPlain(tr) ==
    [tr EXCEPT !.count = @ - 1,
               !.superAborts = @ + 1,
               !.state = IF @ = Pending THEN Aborted ELSE @]

\* AbortControllerMux.abort: the count drops, and at zero the transport request
\* is aborted: a pending one rejects with AbortError, a settled one stays.
MuxAbort(tr) ==
    IF tr.count - 1 <= 0
        THEN [tr EXCEPT !.count = @ - 1,
                        !.superAborts = @ + 1,
                        !.state = IF @ = Pending THEN Aborted ELSE @]
        ELSE [tr EXCEPT !.count = @ - 1]

\* AbortControllerMux.bump
MuxBump(tr) ==
    [tr EXCEPT !.count = @ + 1]

\* A bug of fetch: the stored request is never found.
FetchHitNever(requests, uri) ==
    FALSE

\* GenderCache.fetch: whether genderRequests holds a [promise, abortMux] for uri.
FetchHit(requests, uri) ==
    uri \in DOMAIN requests

\* A bug of fetch: the new request is not stored.
StoreRequestForgotten(requests, uri, t) ==
    requests

\* GenderCache.fetch: this.genderRequests.set(uri, [promise, abortMux])
StoreRequest(requests, uri, t) ==
    MapSet(requests, uri, t)

\* The first transport request issued for uri, 0 when there is none.
First(trs, uri) ==
    IF \E t \in 1..Len(trs) : trs[t].uri = uri
        THEN CHOOSE t \in 1..Len(trs) :
                 /\ trs[t].uri = uri
                 /\ \A t2 \in 1..Len(trs) : trs[t2].uri = uri => t <= t2
        ELSE 0

\* The state of the first transport request issued for uri.
FirstState(trs, uri) ==
    IF First(trs, uri) = 0 THEN "none" ELSE trs[First(trs, uri)].state

\* Promise reactions: every caller whose promise is still pending takes the
\* state of the promise it waits for (the shared promise, or for the caller
\* that started the request the race of it with its own abort promise).
Settled(cs, trs) ==
    [c \in 1..Len(cs) |->
        IF cs[c].outcome = Pending THEN [cs[c] EXCEPT !.outcome = trs[cs[c].t].state] ELSE cs[c]]

\* The state of the cache: genderRequests, the requests and the fetch calls.
CacheState ==
    [requests |-> genderRequests, transports |-> transports, callers |-> callers]

\* The cache takes the state given.
SetCache(cache) ==
    /\ genderRequests' = cache.requests
    /\ transports' = cache.transports
    /\ callers' = cache.callers

\* fetch(uri, signal) with a signal that has not fired: the cache it leaves.
FetchIn(cache, uri) ==
    IF FetchHit(cache.requests, uri)
        THEN LET t == cache.requests[uri]
             IN  [requests |-> cache.requests,
                  transports |-> [cache.transports EXCEPT ![t] = MuxBump(@)],
                  callers |-> Append(cache.callers,
                      [uri |-> uri, t |-> t, listens |-> FALSE, fired |-> FALSE,
                       firedWhile |-> "none", at |-> FirstState(cache.transports, uri),
                       outcome |-> cache.transports[t].state])]
        ELSE LET t == Len(cache.transports) + 1
             IN  [requests |-> StoreRequest(cache.requests, uri, t),
                  transports |-> Append(cache.transports, NewTransport(uri)),
                  callers |-> Append(cache.callers,
                      [uri |-> uri, t |-> t, listens |-> TRUE, fired |-> FALSE,
                       firedWhile |-> "none", at |-> FirstState(cache.transports, uri),
                       outcome |-> Pending])]

\* The signal of fetch call c fires its abort event: the cache it leaves. Only
\* the call that started the request listens to its signal.
CancelIn(cache, c) ==
    LET t == cache.callers[c].t
        fired == [cache.callers EXCEPT ![c].fired = TRUE,
                                       ![c].firedWhile = cache.transports[t].state]
        aborted == [cache.transports EXCEPT ![t] = MuxAbort(@)]
    IN  IF cache.callers[c].listens
            THEN [requests |-> cache.requests,
                  transports |-> aborted,
                  callers |-> Settled(
                      [fired EXCEPT ![c].outcome = IF @ = Pending THEN Aborted ELSE @],
                      aborted)]
            ELSE [requests |-> cache.requests,
                  transports |-> cache.transports,
                  callers |-> fired]

\* Transport request t settles: it answers (or fails) and the response handler
\* returns a Gender or throws: the cache it leaves.
SettleIn(cache, t, resp) ==
    LET settled == [cache.transports EXCEPT ![t].state = HandleResponse(resp).state,
                                            ![t].value = HandleResponse(resp).value,
                                            ![t].response = resp]
    IN  [requests |-> cache.requests,
         transports |-> settled,
         callers |-> Settled(cache.callers, settled)]

\* fetch(uri, signal)
Fetch(uri) ==
    /\ Len(callers) < MaxFetches
    /\ SetCache(FetchIn(CacheState, uri))
    /\ UNCHANGED nonCacheVars

\* The signal a caller passed to fetch fires its abort event.
Cancel(c) ==
    /\ c \in 1..Len(callers)
    /\ ~callers[c].fired
    /\ SetCache(CancelIn(CacheState, c))
    /\ UNCHANGED nonCacheVars

\* The transport request settles.
Settle(t, resp) ==
    /\ t \in 1..Len(transports)
    /\ transports[t].state = Pending
    /\ SetCache(SettleIn(CacheState, t, resp))
    /\ UNCHANGED nonCacheVars

InitRegistry ==
    /\ refMap = <<>>
    /\ listenerMap = <<>>
    /\ microtasks = <<>>
    /\ nCalls = 0
    /\ changes = [k \in Keys |-> <<>>]
    /\ nNotified = [k \in Keys |-> 0]
    /\ base = [p \in Listeners \X Keys |-> 0]
    /\ heard = [p \in Listeners \X Keys |-> <<>>]
    /\ soleAt = [p \in Listeners \X Keys |-> Absent]
    /\ registeredAt = [p \in Keys \X Entities |-> 0]

InitCache ==
    /\ genderRequests = <<>>
    /\ transports = <<>>
    /\ callers = <<>>

\* No resolver call is under way.
NoCall == [op |-> "none"]
NoResult == [kind |-> "none", text |-> <<>>]

InitResolverIdle ==
    /\ resCall = NoCall
    /\ resResult = NoResult

InitPId ==
    /\ pid = [el \in Entities |->
                 [src |-> <<>>, ctrl |-> 0, loaded |-> NoPronouns, errors |-> 0,
                  nLoads |-> 0, loading |-> <<>>, loadedFrom |-> <<>>, nApplied |-> 0]]
    /\ loads = <<>>
    /\ nSrcChanges = 0

\* A connected p-noun without a ref, and connected p-ids without a ref.
NoData == [from |-> Absent, identity |-> Absent]
InitPNoun ==
    /\ noun = [ref |-> Absent, attached |-> {}, pronounData |-> NoData]
    /\ pids = [el \in Entities |-> [ref |-> Absent, value |-> "v0"]]
    /\ nDomCalls = 0

Init == InitRegistry /\ InitCache /\ InitResolverIdle /\ InitPId /\ InitPNoun

NextRegistry ==
    \/ \E ref \in Keys, el \in Entities : Add(ref, el)
    \/ \E ref \in Keys, el \in Entities : Remove(ref, el)
    \/ \E ref \in Keys, fn \in Listeners : On(ref, fn)
    \/ \E ref \in Keys, fn \in Listeners : Off(ref, fn)
    \/ RunMicrotask

SpecRegistry == Init /\ [][NextRegistry]_vars

\* --------------------------------------------------- calls of the resolver
\* The arguments the calls are made with.
Identities == {<<"S", "a", "m">>, <<>>}
Fallbacks == {<<"h", "e", "r">>, <<"H", "e", "r">>, <<>>}
Forms == {"n", "np", "nr", "s", "o", "pa", "pp", "r", "zz"}

\* Arrays of strings a remote response may carry.
RemoteTuples == {<<Str(<<"x", "e">>), Str(<<"x", "e", "m">>)>>,
                 <<Str(<<>>), Str(<<"e", "m">>)>>,
                 <<Str(<<"Z", "e", "d">>), Str(<<"z", "e", "d">>), Str(<<"z", "e", "d", "s">>), Str(<<"z", "e", "d", "s">>), Str(<<"z", "e", "d", "s", "e", "l", "f">>)>>}

\* The pronouns a PronounData may hold: none, an Entry of the table, or an
\* accepted array of a remote response.
PronounValues ==
    {NoPronouns}
        \cup {[present |-> TRUE, entry |-> pronouns[key]] : key \in DOMAIN pronouns}
        \cup {[present |-> TRUE, entry |-> items] : items \in {t \in RemoteTuples : AcceptedArray(t)}}

\* The words of the table's slots.
TableWords ==
    {pronouns[key][i].text : key \in {k \in DOMAIN pronouns : pronouns[k][1].kind = "string"},
                             i \in 1..5}

\* A word with its first character in upper case.
Capitalized(text) == IF text = <<>> THEN text ELSE <<ToUpperChar(text[1])>> \o Tail(text)

\* The samples inferForm is called with.
Samples == TableWords \cup {Capitalized(w) : w \in TableWords} \cup {<<"f", "o", "o">>, <<>>}

ResolverCalls ==
    [op : {"changeGender"}, form : Forms, fallback : Fallbacks,
     data : [identity : Identities, pronouns : PronounValues]]
        \cup [op : {"inferForm"}, sample : Samples]

InitResolver ==
    /\ resCall \in ResolverCalls
    /\ resResult = NoResult

\* changeGender(form, data, fallback) runs.
CallChangeGender ==
    /\ resCall.op = "changeGender"
    /\ resResult = NoResult
    /\ resResult' = changeGender(resCall.form, resCall.data, resCall.fallback)
    /\ UNCHANGED <<resCall, regVars, cacheVars, pidVars, nounVars>>

\* inferForm(sample) runs.
CallInferForm ==
    /\ resCall.op = "inferForm"
    /\ resResult = NoResult
    /\ resResult' = inferForm(resCall.sample)
    /\ UNCHANGED <<resCall, regVars, cacheVars, pidVars, nounVars>>

NextResolver == CallChangeGender \/ CallInferForm

InitCalls == InitRegistry /\ InitCache /\ InitPId /\ InitPNoun /\ InitResolver

SpecResolver == InitCalls /\ [][NextResolver]_vars

\* ------------------------------------------------------------- PIdElement
\* The values the src attribute is given: a constant gender, two remote
\* sources, and a source with an empty provider before the colon.
PIdSources == {<<"s", "h", "e">>, <<"p", ":", "a">>, <<"q", ":", "b">>, <<":", "x">>}

\* The responses the transport gives to the elements.
PIdResponses ==
    {NoResponse,
     [received |-> TRUE, ok |-> TRUE, pronouns |-> PString(<<"h", "h">>)],
     [received |-> TRUE, ok |-> TRUE, pronouns |-> PArray(<<Str(<<"x", "e">>), Str(<<"x", "e", "m">>)>>)]}

\* queueMicrotask(() => this._loadGender(this._src))
LoadTask(el) == [kind |-> "load", el |-> el, c |-> 0]

\* The reaction job of the then(...) of _loadGender on the promise of fetch call c.
ReactionTask(c) == [kind |-> "reaction", el |-> Absent, c |-> c]

\* The reaction jobs queued when promises settle: one for each fetch call whose
\* promise was pending (or did not exist) before and is settled after.
NewReactions(before, after) ==
    LET settledNow(c) == /\ after[c].outcome # Pending
                         /\ (c > Len(before) \/ before[c].outcome = Pending)
        F[c \in 0..Len(after)] ==
            IF c = 0 THEN <<>>
            ELSE IF settledNow(c) THEN Append(F[c - 1], ReactionTask(c)) ELSE F[c - 1]
    IN  F[Len(after)]

\* _cancelGender: the cache after this._abortController.abort(), if there is one.
CancelGender(cache, ctrl) ==
    IF ctrl # 0 THEN CancelIn(cache, ctrl) ELSE cache

\* src.slice(0, colonIndex)
Provider(src) == SubSeq(src, 1, IndexOf(src, ":"))

\* attributeChangedCallback('src', _, src)
SetSrc(el, src) ==
    /\ nSrcChanges < MaxSrcChanges
    /\ nSrcChanges' = nSrcChanges + 1
    /\ pid' = [pid EXCEPT ![el].src = src]
    /\ microtasks' = Append(microtasks, LoadTask(el))
    /\ UNCHANGED <<loads, cacheVars, resVars, nounVars>>
    /\ UNCHANGED <<refMap, listenerMap, regHistory>>

\* The host runs the oldest microtask, this._loadGender(this._src).
RunLoadGender ==
    /\ microtasks # <<>>
    /\ Head(microtasks).kind = "load"
    /\ LET el == Head(microtasks).el
           src == pid[el].src
           cancelled == CancelGender(CacheState, pid[el].ctrl)
           gender == IF lookupPronouns(src).present
                         THEN lookupPronouns(src)
                         ELSE [present |-> TRUE, entry |-> pronouns[<<"u", "n", "k", "n", "o", "w", "n">>]]
       IN  IF IndexOf(src, ":") = -1
               THEN /\ SetCache(cancelled)
                    /\ pid' = [pid EXCEPT ![el].ctrl = 0,
                                          ![el].loaded = gender,
                                          ![el].nLoads = @ + 1,
                                          ![el].loading = src,
                                          ![el].loadedFrom = src,
                                          ![el].nApplied = @ + 1]
                    /\ loads' = loads
                    /\ microtasks' = Tail(microtasks) \o NewReactions(callers, callers')
               ELSE LET fetched == FetchIn(cancelled, src)
                    IN  /\ SetCache(fetched)
                        /\ pid' = [pid EXCEPT ![el].ctrl = Len(fetched.callers),
                                              ![el].errors =
                                                  IF Provider(src) = <<>> THEN @ + 1 ELSE @,
                                              ![el].nLoads = @ + 1,
                                              ![el].loading = src]
                        /\ loads' = Append(loads, [el |-> el, src |-> src])
                        /\ microtasks' = Tail(microtasks) \o NewReactions(callers, callers')
    /\ UNCHANGED <<nSrcChanges, resVars, nounVars>>
    /\ UNCHANGED <<refMap, listenerMap, regHistory>>

\* The host runs the oldest microtask, the reaction of _loadGender to the
\* promise of one of its fetch calls: the Gender is taken, an abort is ignored,
\* another failure is emitted as an error event.
RunReaction ==
    /\ microtasks # <<>>
    /\ Head(microtasks).kind = "reaction"
    /\ LET c == Head(microtasks).c
           el == loads[c].el
       IN  pid' = IF callers[c].outcome = Fulfilled
                      THEN [pid EXCEPT ![el].loaded = transports[callers[c].t].value,
                                       ![el].loadedFrom = loads[c].src,
                                       ![el].nApplied = @ + 1]
                  ELSE IF callers[c].outcome = Rejected
                      THEN [pid EXCEPT ![el].errors = @ + 1]
                      ELSE pid
    /\ microtasks' = Tail(microtasks)
    /\ UNCHANGED <<loads, nSrcChanges, cacheVars, resVars, nounVars>>
    /\ UNCHANGED <<refMap, listenerMap, regHistory>>

\* A transport request of the elements settles. The response arrives in a task
\* of its own, so the microtasks queued before it have all run.
SettleLoad(t, resp) ==
    /\ microtasks = <<>>
    /\ t \in 1..Len(transports)
    /\ transports[t].state = Pending
    /\ SetCache(SettleIn(CacheState, t, resp))
    /\ microtasks' = microtasks \o NewReactions(callers, callers')
    /\ UNCHANGED <<pidVars, resVars, nounVars>>
    /\ UNCHANGED <<refMap, listenerMap, regHistory>>

NextPId ==
    \/ \E el \in Entities, src \in PIdSources : SetSrc(el, src)
    \/ RunLoadGender
    \/ RunReaction
    \/ \E t \in 1..MaxSrcChanges, resp \in PIdResponses : SettleLoad(t, resp)

SpecPId == Init /\ [][NextPId]_vars

\* ------------------------------------------------------------ PNounElement
\* The texts a p-id element is given.
Values == {"v0", "v1"}

\* The p-noun's onReferencedElementChangedFn, as the RefManager knows it.
NounFn == "f"

\* PIdElement.pronounData, as far as the identity goes.
PronounData(el, value) == [from |-> el, identity |-> value]

\* PNounElement.onReferencedElementChanged(oldElement, newElement)
ReferencedElementChanged(n, oldElement, newElement) ==
    IF newElement # Absent
        THEN [n EXCEPT !.attached = (@ \ {oldElement}) \cup {newElement},
                       !.pronounData = PronounData(newElement, pids[newElement].value)]
        ELSE [n EXCEPT !.attached = @ \ {oldElement}]

\* PIdElement.attributeChangedCallback('ref', oldValue, ref) of a connected p-id
PIdSetRef(el, ref) ==
    /\ nDomCalls < MaxDomCalls
    /\ nDomCalls' = nDomCalls + 1
    /\ LET oldValue == pids[el].ref
           removed == IF oldValue # Absent THEN RemoveRefs(refMap, oldValue, el) ELSE refMap
           removeTasks == IF oldValue # Absent THEN RemoveTasks(refMap, oldValue, el) ELSE <<>>
       IN  /\ refMap' = AddRefs(removed, ref, el)
           /\ microtasks' = microtasks \o removeTasks \o AddTasks(removed, ref, el)
    /\ pids' = [pids EXCEPT ![el].ref = ref]
    /\ UNCHANGED <<listenerMap, noun, regHistory, cacheVars, resVars, pidVars>>

\* PIdElement.setValue(value), from the value setter or the MutationObserver
PIdSetValue(el, value) ==
    /\ nDomCalls < MaxDomCalls
    /\ nDomCalls' = nDomCalls + 1
    /\ pids[el].value # value
    /\ pids' = [pids EXCEPT ![el].value = value]
    /\ noun' = IF el \in noun.attached
                   THEN [noun EXCEPT !.pronounData = PronounData(el, value)]
                   ELSE noun
    /\ UNCHANGED <<refMap, listenerMap, microtasks, regHistory, cacheVars, resVars, pidVars>>

\* PNounElement.attributeChangedCallback('ref', oldValue, ref) of the connected p-noun
PNounSetRef(ref) ==
    /\ nDomCalls < MaxDomCalls
    /\ nDomCalls' = nDomCalls + 1
    /\ LET oldValue == noun.ref
           off == IF oldValue # Absent
                      THEN OffListeners(listenerMap, oldValue, NounFn)
                      ELSE listenerMap
       IN  listenerMap' = OnListeners(off, ref, NounFn)
    /\ microtasks' = Append(microtasks, ReplayTask(ref, NounFn, Get(refMap, ref)))
    /\ noun' = [noun EXCEPT !.ref = ref]
    /\ UNCHANGED <<refMap, pids, regHistory, cacheVars, resVars, pidVars>>

\* The host runs the oldest microtask: a notify or the replay of an on, which
\* calls the p-noun's onReferencedElementChanged if it is among the targets.
RunPNounMicrotask ==
    /\ microtasks # <<>>
    /\ LET task == Head(microtasks)
           targets == IF task.kind = "notify"
                          THEN NotifyTargets(listenerMap, task.ref)
                          ELSE {task.fn}
       IN  noun' = IF NounFn \in targets
                       THEN ReferencedElementChanged(noun, task.old, task.new)
                       ELSE noun
    /\ microtasks' = Tail(microtasks)
    /\ UNCHANGED <<refMap, listenerMap, pids, nDomCalls, regHistory, cacheVars, resVars,
                   pidVars>>

NextPNoun ==
    \/ \E el \in Entities, ref \in Keys : PIdSetRef(el, ref)
    \/ \E el \in Entities, value \in Values : PIdSetValue(el, value)
    \/ \E ref \in Keys : PNounSetRef(ref)
    \/ RunPNounMicrotask

SpecPNoun == Init /\ [][NextPNoun]_vars

NextCache ==
    \/ \E uri \in Sources : Fetch(uri)
    \/ \E c \in 1..MaxFetches : Cancel(c)
    \/ \E t \in 1..MaxFetches, resp \in Responses : Settle(t, resp)

SpecCache == Init /\ [][NextCache]_vars

Next == NextRegistry \/ NextCache

Spec == Init /\ [][Next]_vars

\* ------------------------------------------------ properties: GenderCache
\* The transport requests issued for uri.
Issued(trs, uri) == {t \in 1..Len(trs) : trs[t].uri = uri}

\* The fetch calls waiting on transport request t.
Attached(cs, t) == {c \in 1..Len(cs) : cs[c].t = t}

SettledStates == {Fulfilled, Rejected, Aborted}

\* C1: the fetch calls made for a source while its first transport request has
\* not settled issue one transport request between them, and each of them is
\* handed the promise of that one request.
C1_OneSharedTransport ==
    /\ \A c \in 1..Len(callers) :
           callers[c].at \in {"none", Pending} =>
               callers[c].t = First(transports, callers[c].uri)
    /\ \A uri \in Sources :
           FirstState(transports, uri) = Pending => Cardinality(Issued(transports, uri)) = 1

\* C1 witness: three fetch calls of one source made while its request was
\* pending, all on that request.
C1_Witness ==
    \E uri \in Sources :
        /\ FirstState(transports, uri) = Pending
        /\ Cardinality({c \in 1..Len(callers) : callers[c].uri = uri}) = 3
        /\ \A c \in 1..Len(callers) :
               callers[c].uri = uri => callers[c].t = First(transports, uri)

\* C2: no step aborts a transport request on which a caller waits whose own
\* signal has not fired, and a caller whose signal has not fired has the result
\* of the transport request as soon as the request has one.
C2_NoAbortUnderWaitingCaller ==
    [][/\ \A t \in 1..Len(transports) :
              transports[t].state = Pending /\ transports'[t].state = Aborted =>
                  \A c \in Attached(callers, t) : callers'[c].fired
       /\ \A c \in 1..Len(callers') :
              ~callers'[c].fired /\ callers'[c].at \in {"none", Pending}
                  => /\ callers'[c].outcome = transports'[callers'[c].t].state
                     /\ callers'[c].outcome # Aborted]_vars

\* C2 witness: the first caller cancelled while the second was pending; the
\* request was not aborted and the second caller has its result.
C2_Witness ==
    \E c1, c2 \in 1..Len(callers) :
        /\ callers[c1].listens /\ callers[c1].firedWhile = Pending
        /\ callers[c1].outcome = Aborted
        /\ callers[c2].t = callers[c1].t /\ callers[c2].at = Pending
        /\ ~callers[c2].fired
        /\ transports[callers[c1].t].superAborts = 0
        /\ callers[c2].outcome = Fulfilled

\* C3 (as claimed): when every caller of a transport request has cancelled
\* while the request was pending, the request has been aborted, exactly once.
C3_AllCancelledAbortsOnce ==
    \A t \in 1..Len(transports) :
        (\A c \in Attached(callers, t) : callers[c].firedWhile = Pending) =>
            /\ transports[t].state = Aborted
            /\ transports[t].superAborts = 1

\* C4 (as claimed): a caller whose signal fired while the shared request was
\* pending has its promise rejected with the abort failure, from that moment.
C4_CancelledCallerRejected ==
    \A c \in 1..Len(callers) :
        callers[c].firedWhile = Pending => callers[c].outcome = Aborted

C6_AbortOnlyForCanceller ==
    \A c \in 1..Len(callers) :
        ~callers[c].fired => callers[c].outcome # Aborted

\* C15: a settled transport request is fulfilled exactly when its response
\* came with a success status and a pronouns field that is a string
\* lookupPronouns resolves (the Gender holds that Entry) or an array of at least
\* two elements, all strings (the Gender holds the array as it is); otherwise it
\* is rejected, and every caller whose promise was not rejected by its own
\* cancellation has the rejection.
C15_SuccessShapes ==
    \A t \in 1..Len(transports) :
        transports[t].state \in {Fulfilled, Rejected} =>
            LET resp == transports[t].response
                p == resp.pronouns
                byCode == p.kind = "string" /\ lookupPronouns(p.text).present
                byArray == /\ p.kind = "array"
                           /\ Len(p.items) >= 2
                           /\ \A i \in 1..Len(p.items) : p.items[i].kind = "string"
                success == resp.received /\ resp.ok /\ (byCode \/ byArray)
            IN  /\ transports[t].state = Fulfilled <=> success
                /\ (success /\ byCode) => transports[t].value.entry = lookupPronouns(p.text).entry
                /\ (success /\ byArray) => transports[t].value.entry = p.items
                /\ success => transports[t].value.present
                /\ \A c \in Attached(callers, t) :
                       callers[c].outcome \in {transports[t].state, Aborted}
                /\ \A c \in Attached(callers, t) :
                       ~callers[c].fired => callers[c].outcome = transports[t].state

\* C15 witness: a response with a success status and an array of one string
\* was rejected, and the caller has the rejection.
C15_Witness ==
    \E t \in 1..Len(transports) :
        /\ transports[t].response.ok
        /\ transports[t].response.pronouns.kind = "array"
        /\ Len(transports[t].response.pronouns.items) = 1
        /\ transports[t].state = Rejected
        /\ \E c \in Attached(callers, t) : callers[c].outcome = Rejected

\* ------------------------------------------------- properties: RefManager
\* The notify calls among the calls made to a listener, as holder transitions.
NotifyCalls(calls) ==
    LET notifies == SelectSeq(calls, LAMBDA c : c.kind = "notify")
    IN  [i \in 1..Len(notifies) |-> [old |-> notifies[i].old, new |-> notifies[i].new]]

\* The queued notify microtasks of a ref, oldest first.
QueuedNotifies(queue, ref) ==
    SelectSeq(queue, LAMBDA t : t.kind = "notify" /\ t.ref = ref)

\* The number of calls with the given arguments among the calls made to a listener.
CountCalls(calls, oldElement, newElement) ==
    Cardinality({i \in 1..Len(calls) : calls[i].old = oldElement /\ calls[i].new = newElement})

\* C7: a listener of a ref is notified of the holder transitions of that ref in
\* the order of the calls that made them, one notification per transition, none
\* reordered, merged or skipped: what it was notified of since it subscribed is
\* exactly the run of the ref's transitions that notify has delivered since.
C7_NotifiedInCallOrder ==
    \A fn \in Listeners, ref \in Keys :
        Subscribed(fn, ref) =>
            /\ base[<<fn, ref>>] <= nNotified[ref]
            /\ nNotified[ref] <= Len(changes[ref])
            /\ NotifyCalls(heard[<<fn, ref>>])
                 = SubSeq(changes[ref], base[<<fn, ref>>] + 1, nNotified[ref])

\* C7 witness: a listener subscribed before add(k, A); add(k, B); remove(k, A)
\* has been told (absent -> A) and then (A -> B).
C7_Witness ==
    \E fn \in Listeners, ref \in Keys :
        /\ Subscribed(fn, ref)
        /\ base[<<fn, ref>>] = 0
        /\ refMap = MapSet(<<>>, ref, <<"B">>)
        /\ NotifyCalls(heard[<<fn, ref>>])
             = <<[old |-> Absent, new |-> "A"], [old |-> "A", new |-> "B"]>>

\* C8 (as claimed): after subscribe(k, fn) made while A is the sole holder of k,
\* and with k untouched since, fn is called with (absent, A) at most once, and
\* exactly once when the microtask queue has drained.
C8_ReplayExactlyOnce ==
    \A fn \in Listeners, ref \in Keys :
        soleAt[<<fn, ref>>] # Absent =>
            LET n == CountCalls(heard[<<fn, ref>>], Absent, soleAt[<<fn, ref>>])
            IN  /\ n <= 1
                /\ microtasks = <<>> => n = 1

\* C9: a step changes the active holder of a ref exactly when it queues one
\* notify(ref, holder before, holder after); a step that leaves the holder alone
\* (add to a ref with registrants, remove of a non-holder, on, off) queues none.
\* The holder a remove announces is the next-oldest registrant, absent when none
\* is left; the holder an add announces is the element added to an empty ref.
C9_OneNotifyPerHolderChange ==
    [][\A ref \in Keys :
          LET before == Get(refMap, ref)
              after == Get(refMap', ref)
              queued == QueuedNotifies(microtasks, ref)
              queuedAfter == QueuedNotifies(microtasks', ref)
              nextOldest == IF Len(refMap[ref]) > 1 THEN refMap[ref][2] ELSE Absent
          IN  IF before # after
                  THEN /\ queuedAfter = Append(queued, NotifyTask(ref, before, after))
                       /\ before # Absent => after = nextOldest
                       /\ before = Absent => refMap'[ref] = <<after>>
                  ELSE \/ queuedAfter = queued
                       \/ queued # <<>> /\ queuedAfter = Tail(queued)]_vars

\* C9 witness: a remove of the holder has announced the next-oldest registrant
\* and the notification is still queued.
C9_Witness ==
    \E ref \in Keys :
        /\ ref \in DOMAIN refMap
        /\ microtasks # <<>>
        /\ microtasks[Len(microtasks)] = NotifyTask(ref, "A", "B")
        /\ Get(refMap, ref) = "B"

\* C10: every ref present in refMap maps to a non-empty Set.
C10_NoEmptySet ==
    \A ref \in DOMAIN refMap : refMap[ref] # <<>>

\* C10 witness: the last element of a ref was removed and the ref is gone.
C10_Witness ==
    \E ref \in Keys :
        /\ changes[ref] # <<>>
        /\ changes[ref][Len(changes[ref])].new = Absent
        /\ ref \notin DOMAIN refMap

\* The elements registered under ref.
Registered(ref) == {el \in Entities : registeredAt[<<ref, el>>] > 0}

\* The earliest-registered element still registered under ref, absent without one.
Oldest(ref) ==
    IF Registered(ref) = {} THEN Absent
    ELSE CHOOSE el \in Registered(ref) :
             \A other \in Registered(ref) : registeredAt[<<ref, el>>] <= registeredAt[<<ref, other>>]

\* C11: the active holder of a ref is always the earliest-registered element
\* still registered under it, and a step changes it only by removing the holder
\* or by registering an element under a ref that has no holder.
C11_HolderIsOldest ==
    /\ [](\A ref \in Keys : Get(refMap, ref) = Oldest(ref))
    /\ [][\A ref \in Keys :
             LET before == Get(refMap, ref)
                 after == Get(refMap', ref)
             IN  before # after =>
                     IF before = Absent
                         THEN registeredAt[<<ref, after>>] = 0 /\ registeredAt'[<<ref, after>>] > 0
                         ELSE registeredAt[<<ref, before>>] > 0 /\ registeredAt'[<<ref, before>>] = 0]_vars

\* C11 witness: A registered first, then B; A was removed and added again, and
\* B, now the earliest registered, is still the holder.
C11_Witness ==
    \E ref \in Keys :
        /\ refMap = MapSet(<<>>, ref, <<"B", "A">>)
        /\ changes[ref] = <<[old |-> Absent, new |-> "A"], [old |-> "A", new |-> "B"]>>
        /\ registeredAt[<<ref, "B">>] < registeredAt[<<ref, "A">>]
        /\ Get(refMap, ref) = "B"

\* The most recent call made to a listener, as a sequence of zero or one call.
LastCall(calls) ==
    IF calls = <<>> THEN <<>> ELSE <<calls[Len(calls)]>>

\* C17: when the microtask queue holds no registry task, the newest call made to
\* each listener of a ref since it subscribed passed the current active holder
\* of the ref as the new holder (absent when the ref has no registrant).
C17_ListenersSettleOnHolder ==
    microtasks = <<>> =>
        \A fn \in Listeners, ref \in Keys :
            Subscribed(fn, ref) =>
                /\ heard[<<fn, ref>>] # <<>>
                /\ heard[<<fn, ref>>][Len(heard[<<fn, ref>>])].new = Get(refMap, ref)

\* C17 witness: a listener subscribed while A held the ref; A was then removed
\* with B registered, and the listener was last told B, the holder.
C17_Witness ==
    \E fn \in Listeners, ref \in Keys :
        /\ microtasks = <<>>
        /\ Subscribed(fn, ref)
        /\ Get(refMap, ref) = "B"
        /\ Len(heard[<<fn, ref>>]) >= 2
        /\ heard[<<fn, ref>>][1] = Call("replay", Absent, "A")
        /\ LastCall(heard[<<fn, ref>>]) = <<Call("notify", "A", "B")>>

\* C18 (as claimed): a function that is not a listener of a ref, before and after
\* a step, is not called for that ref by the step.
C18_NoCallAfterOff ==
    [][\A fn \in Listeners, ref \in Keys :
          (~Subscribed(fn, ref) /\ ~(fn \in NotifyTargets(listenerMap', ref)))
              => heard'[<<fn, ref>>] = heard[<<fn, ref>>]]_vars

\* ---------------------------------------------------- properties: resolver
\* The form positions (from 0) at which some Entry of the table holds the word.
FormSlots(word) ==
    {i \in 0..4 : \E key \in DOMAIN pronouns : pronouns[key][i + 1] = Str(word)}

\* C12 (as claimed): changeGender returns a string for every form, every
\* PronounData and every fallback; it never throws.
C12_ChangeGenderTotal ==
    (resCall.op = "changeGender" /\ resResult # NoResult) => resResult.kind = "string"

\* C13 (as claimed): inferForm returns undefined for a word that fills two or
\* more distinct form positions of the table.
C13_AmbiguousWordNotInferred ==
    (resCall.op = "inferForm" /\ resResult # NoResult
        /\ Cardinality(FormSlots(ToLowerCase(resCall.sample))) >= 2)
            => resResult = Undefined

\* C14 (as claimed): inferForm returns the form of the one form position a
\* lower-cased word fills in the table, and undefined for a word in none.
C14_UniqueWordInferred ==
    (resCall.op = "inferForm" /\ resResult # NoResult) =>
        LET slots == FormSlots(ToLowerCase(resCall.sample))
        IN  /\ Cardinality(slots) = 1 =>
                   resResult = Str(<<ENTRY_FORMATS[(CHOOSE i \in slots : TRUE) + 1]>>)
            /\ slots = {} => resResult = Undefined

\* -------------------------------------------------- properties: PIdElement
\* C16 (as claimed): a source with an empty provider before its colon is
\* reported as an error when it is loaded and is never passed to fetch.
C16_EmptyProviderNotFetched ==
    /\ \A el \in Entities :
           (IndexOf(pid[el].loading, ":") = 0) => pid[el].errors >= 1
    /\ \A c \in 1..Len(callers) : IndexOf(callers[c].uri, ":") # 0

\* C19 (as claimed): a step that puts the result of a fetch into the loaded
\* pronouns of an element puts there the result of the source the element is
\* loading, never that of a source it loaded before.
C19_StaleLoadNotApplied ==
    [][\A el \in Entities :
          pid'[el].nApplied # pid[el].nApplied => pid'[el].loadedFrom = pid'[el].loading]_vars

\* ------------------------------------------------ properties: PNounElement
\* The p-id the p-noun's current ref stands for.
Referenced == Get(refMap, noun.ref)

\* C20 (as claimed): once the microtasks have run, the p-noun listens to no
\* p-id but the holder of its current ref, and a text change of any other p-id
\* leaves the p-noun's pronoun data as it is.
C20_ListensOnlyToReferenced ==
    /\ [](microtasks = <<>> => noun.attached \subseteq {Referenced})
    /\ [][\A el \in Entities :
             (/\ microtasks = <<>>
              /\ el # Referenced
              /\ pids'[el].value # pids[el].value) => noun'.pronounData = noun.pronounData]_vars

====
